---- MODULE Spec2Model ----
(***************************************************************************)
(* A model of src/src/App.tsx: the authenticator component.  Its state is  *)
(* the signals accounts, codes and timeLeft of App, the position of the    *)
(* mount-time load, the repeating timer, and the addAccount and            *)
(* removeAccount calls that are awaiting the persistence backend.  The     *)
(* backend (./db) and the code generator (window.otplib) are not part of   *)
(* src/; they are modelled from the specification's description of them.   *)
(*                                                                         *)
(* JavaScript runs one handler at a time, so every handler, and every      *)
(* continuation after an await, is one atomic action.  Strings whose       *)
(* characters matter (secrets, code values) are sequences of one-character *)
(* strings.                                                                *)
(***************************************************************************)
EXTENDS Integers, Sequences, FiniteSets, Bags, TLC

VARIABLES
    accounts,       \* signal accounts (line 6): sequence of Account
    codes,          \* signal codes (line 9): function id -> string
    timeLeft,       \* signal timeLeft (line 10)
    mountPc,        \* position of the onMount handler (lines 13-21)
    savedAccounts,  \* the local savedAccounts of line 16, while it is live
    intervals,      \* number of live setInterval timers (line 25)
    disposed,       \* the component has been disposed
    adds,           \* addAccount calls suspended at line 55
    removes,        \* removeAccount calls suspended at line 66 (a bag)
    dbAccounts,     \* the records held by the persistence backend
    nextId,         \* the next value crypto.randomUUID() hands out
    now,            \* the wall clock, in seconds (Date.now() / 1000)
    tickNow,        \* the local `now` of the latest tick (line 26)
    lastCall,       \* how the promise of the latest finished call settled
    justAdded,      \* history: ids added (line 56) since the latest tick
    removed,        \* history: ids whose removeAccount reached line 67
    failedAdds      \* history: ids of the accounts whose write (line 55) failed

vars == <<accounts, codes, timeLeft, mountPc,
          savedAccounts, intervals, disposed, adds, removes, dbAccounts,
          nextId, now, tickNow, lastCall, justAdded, removed, failedAdds>>

----------------------------------------------------------------------------
(* Bounds of the model. *)

\* the wall clock stops at this second
MaxNow == 30
\* the latest id crypto.randomUUID() hands out
MaxId == 2
\* addAccount/removeAccount calls that may be awaiting the backend at once
MaxCalls == 2
\* seconds the wall clock may advance while one tick runs
MaxJitter == 1

----------------------------------------------------------------------------
(* Program constants. *)

\* the validity window of line 27, and the initial timeLeft of line 10
Period == 30

\* tickNow before the first tick
NoTick == -1

\* an id no account ever had
NoSuchId == 0

----------------------------------------------------------------------------
(* Strings. *)

Whitespace == {" ", "\t", "\n"}

DigitChars == <<"0", "1", "2", "3", "4", "5", "6", "7", "8", "9">>

Base32Chars ==
    <<"A", "B", "C", "D", "E", "F", "G", "H", "I", "J", "K", "L", "M",
      "N", "O", "P", "Q", "R", "S", "T", "U", "V", "W", "X", "Y", "Z",
      "2", "3", "4", "5", "6", "7">>

Range(s) == {s[i] : i \in DOMAIN s}

\* String.prototype.replace(/\s/g, '') of line 51
RECURSIVE StripWhitespace(_)
StripWhitespace(s) ==
    IF s = <<>> THEN <<>>
    ELSE IF Head(s) \in Whitespace THEN StripWhitespace(Tail(s))
    ELSE <<Head(s)>> \o StripWhitespace(Tail(s))

----------------------------------------------------------------------------
(* The code generator, window.otplib.authenticator.generate (line 33).     *)
(* The library is not part of src/.  It is modelled from section 4 of the  *)
(* specification: the secret is Base32 text, an empty or malformed secret  *)
(* makes the call throw, and the code is a function of the key and of      *)
(* floor(t / period), written as six decimal digits.  Hotp stands for      *)
(* HMAC-SHA1 with dynamic truncation: a fixed mixing function of the same  *)
(* two inputs.                                                             *)

Decodable(secret) ==
    /\ secret # <<>>
    /\ Range(secret) \subseteq Range(Base32Chars)

Base32Value(c) == (CHOOSE i \in DOMAIN Base32Chars : Base32Chars[i] = c) - 1

RECURSIVE KeyOf(_)
KeyOf(secret) ==
    IF secret = <<>> THEN 0
    ELSE (KeyOf(Tail(secret)) * 32 + Base32Value(Head(secret))) % 1048576

Hotp(key, counter) == (key * 7919 + counter * 104729 + 271828) % 1000000

\* n in decimal, zero-padded on the left to d characters
RECURSIVE PadDigits(_, _)
PadDigits(n, d) ==
    IF d = 0 THEN <<>>
    ELSE PadDigits(n \div 10, d - 1) \o <<DigitChars[(n % 10) + 1]>>

Generate(secret, t) == PadDigits(Hotp(KeyOf(secret), t \div Period), 6)

\* error.toString() of the error generate throws (line 35)
ErrorText ==
    <<"E", "r", "r", "o", "r", ":", " ", "I", "n", "v", "a", "l", "i", "d",
      " ", "s", "e", "c", "r", "e", "t">>

----------------------------------------------------------------------------
(* The effect of lines 24-42.  createEffect runs its function once after   *)
(* the component is rendered and again whenever a signal that the function *)
(* read while it ran is written.  Every run calls setInterval (line 25).   *)
(* The function reads no signal while it runs: accounts() at line 31 is    *)
(* read later, by the timer callback.                                      *)

\* an effect that reads the account list while it runs, as it would if the
\* loop of line 31 stood in the effect and not in the timer callback
EffectDepsWithAccounts == {"accounts"}

\* the signals the function of lines 24-42 reads while it runs
EffectDeps == {}

\* the runs of the effect that writing the signals `written` causes
EffectRuns(written) == Cardinality(written \cap EffectDeps)

----------------------------------------------------------------------------
(* The tick of lines 25-39. *)

\* a countdown that runs from 29 down to 0
SecondsLeftOffByOne(n) == (Period - 1) - (n % Period)

\* line 27
SecondsLeft(n) == Period - (n % Period)

EmptyCodes == [id \in {} |-> <<>>]

Put(f, k, v) == [x \in (DOMAIN f) \cup {k} |-> IF x = k THEN v ELSE f[x]]

\* lines 32-36: the try/catch around one account's generate call, which
\* reads the clock itself (at second t)
\* a generator that counts seconds and not 30-second windows
CodeOrErrorPerSecond(secret, t) ==
    IF Decodable(secret) THEN Generate(secret, t * Period) ELSE ErrorText

CodeOrError(secret, t) ==
    IF Decodable(secret) THEN Generate(secret, t) ELSE ErrorText

\* lines 30-37, from the i-th account on; reads[i] is the second at which
\* the i-th generate call reads the clock
RECURSIVE ForEachFrom(_, _, _, _)
ForEachFrom(list, reads, i, newCodes) ==
    IF i > Len(list) THEN newCodes
    ELSE ForEachFrom(list, reads, i + 1,
                     Put(newCodes, list[i].id,
                         CodeOrError(list[i].secret, reads[i])))

\* the loop with one try/catch around all of it: the first failure ends it
RECURSIVE ForEachUntilThrow(_, _, _, _)
ForEachUntilThrow(list, reads, i, newCodes) ==
    IF i > Len(list) THEN newCodes
    ELSE IF ~Decodable(list[i].secret) THEN newCodes
    ELSE ForEachUntilThrow(list, reads, i + 1,
                           Put(newCodes, list[i].id,
                               Generate(list[i].secret, reads[i])))

NewCodesAbortOnThrow(list, reads) ==
    ForEachUntilThrow(list, reads, 1, EmptyCodes)

\* setCodes({...codes(), ...newCodes}): the new codes are merged into the
\* snapshot that is there
NewCodesMerged(list, reads) == ForEachFrom(list, reads, 1, codes)

\* lines 30-37
NewCodes(list, reads) == ForEachFrom(list, reads, 1, EmptyCodes)

Min(a, b) == IF a < b THEN a ELSE b

\* the seconds the generate calls of one tick may read: the clock never
\* goes back, and it may advance while the tick runs
ClockReads(n, len) ==
    {r \in [1..len -> n..Min(n + MaxJitter, MaxNow)] :
        \A i \in 1..len : \A j \in 1..len : i <= j => r[i] <= r[j]}

\* a tick that drops the accounts whose secret the generator refuses
TickPruning(reads) ==
    /\ intervals > 0
    /\ tickNow' = now
    /\ timeLeft' = SecondsLeft(now)
    /\ codes' = NewCodes(accounts, reads)
    /\ accounts' = SelectSeq(accounts, LAMBDA a : Decodable(a.secret))
    /\ now' = IF Len(accounts) = 0 THEN now ELSE reads[Len(accounts)]
    /\ intervals' = intervals + EffectRuns({"timeLeft", "codes"})
    /\ justAdded' = {}
    /\ UNCHANGED <<mountPc, savedAccounts,
                   disposed, adds, removes, dbAccounts, nextId,
                   lastCall, removed,
                   failedAdds>>

Tick(reads) ==
    /\ intervals > 0
    /\ tickNow' = now
    /\ timeLeft' = SecondsLeft(now)
    /\ codes' = NewCodes(accounts, reads)
    /\ now' = IF Len(accounts) = 0 THEN now ELSE reads[Len(accounts)]
    /\ intervals' = intervals + EffectRuns({"timeLeft", "codes"})
    /\ justAdded' = {}
    /\ UNCHANGED <<accounts, mountPc, savedAccounts,
                   disposed, adds, removes, dbAccounts, nextId,
                   lastCall, removed,
                   failedAdds>>

\* the wall clock
ClockAdvance ==
    /\ now < MaxNow
    /\ now' = now + 1
    /\ UNCHANGED <<accounts, codes, timeLeft, mountPc,
                   savedAccounts, intervals, disposed, adds, removes,
                   dbAccounts, nextId, tickNow, lastCall, justAdded,
                   removed,
                   failedAdds>>

----------------------------------------------------------------------------
(* The persistence backend, ./db.  It is not part of src/.  It is modelled *)
(* from sections 4.3 and 6 of the specification: it keeps the records in   *)
(* insertion order, each operation is awaitable and either takes effect    *)
(* whole or fails and changes nothing, and deleting an absent id is not a  *)
(* failure.  Nothing is said about the order in which operations that are  *)
(* in flight together take effect or resolve, so the model allows every    *)
(* order.                                                                  *)

Ids(list) == {list[i].id : i \in DOMAIN list}

DbPut(records, account) == Append(records, account)

DbDelete(records, id) == SelectSeq(records, LAMBDA a : a.id # id)

----------------------------------------------------------------------------
(* The mount-time load of lines 13-21.  mountPc is "init" while db.init()  *)
(* is awaited, "get" while db.getAllAccounts() is awaited, "got" once the  *)
(* backend has answered and line 17 has not run yet, "done" after line 17  *)
(* and "failed" after the catch of lines 18-20.                            *)

\* db.init() resolves; line 16 calls db.getAllAccounts()
DbInitResolves ==
    /\ mountPc = "init"
    /\ mountPc' = "get"
    /\ UNCHANGED <<accounts, codes, timeLeft,
                   savedAccounts, intervals, disposed, adds, removes,
                   dbAccounts, nextId, now, tickNow, lastCall, justAdded,
                   removed,
                   failedAdds>>

\* db.init() or db.getAllAccounts() rejects; lines 18-20 log the error
DbLoadRejects ==
    /\ mountPc \in {"init", "get"}
    /\ mountPc' = "failed"
    /\ UNCHANGED <<accounts, codes, timeLeft,
                   savedAccounts, intervals, disposed, adds, removes,
                   dbAccounts, nextId, now, tickNow, lastCall, justAdded,
                   removed,
                   failedAdds>>

\* the backend reads its records for db.getAllAccounts()
DbGetAllResolves ==
    /\ mountPc = "get"
    /\ savedAccounts' = dbAccounts
    /\ mountPc' = "got"
    /\ UNCHANGED <<accounts, codes, timeLeft, intervals,
                   disposed, adds, removes, dbAccounts, nextId, now, tickNow,
                   lastCall, justAdded, removed,
                   failedAdds>>

\* line 17
MountResume ==
    /\ mountPc = "got"
    /\ accounts' = savedAccounts
    /\ mountPc' = "done"
    /\ savedAccounts' = <<>>
    /\ intervals' = intervals + EffectRuns({"accounts"})
    /\ UNCHANGED <<codes, timeLeft,
                   disposed, adds, removes, dbAccounts, nextId,
                   now, tickNow, lastCall, justAdded, removed,
                   failedAdds>>

----------------------------------------------------------------------------
(* The form fields, the signals newName and newSecret (lines 7-8).  The   *)
(* input handlers of lines 119 and 134 store whatever the user types, and  *)
(* nothing but addAccount reads the two signals, so the model draws their  *)
(* values when the form is submitted; a secret is a sequence of            *)
(* characters.                                                             *)

NameInputs == {"", "a"}

SecretInputs == {<<>>, <<" ">>, <<"J", " ", "B">>, <<"!">>}

----------------------------------------------------------------------------
(* addAccount, lines 44-62, and removeAccount, lines 64-71.  Both are      *)
(* async functions whose try/catch handles every error, and line 46        *)
(* returns without a value: the promise the caller holds is resolved on    *)
(* every path and never rejected.  lastCall is how the promise of the call *)
(* that finished last was settled.                                         *)

\* the return of line 46 and the end of the function body
Returns == "resolved"

InFlight == Cardinality(adds) + BagCardinality(removes)

\* line 46
Rejected(name, secret) == name = "" \/ secret = <<>>

\* lines 44-55, up to the await
AddAccount(name, secret) ==
    /\ ~disposed
    /\ IF Rejected(name, secret)
       THEN /\ lastCall' = Returns
            /\ UNCHANGED <<adds, nextId>>
       ELSE /\ nextId <= MaxId
            /\ InFlight < MaxCalls
            /\ adds' = adds \cup
                   {[account |-> [id |-> nextId, name |-> name,
                                  secret |-> StripWhitespace(secret)],
                     st |-> "await"]}
            /\ nextId' = nextId + 1
            /\ UNCHANGED lastCall
    /\ UNCHANGED <<accounts, codes, timeLeft, mountPc,
                   savedAccounts, intervals, disposed, removes, dbAccounts,
                   now, tickNow, justAdded, removed,
                   failedAdds>>

\* the backend stores the record of db.addAccount(newAccount)
DbAddResolves(c) ==
    /\ c \in adds
    /\ c.st = "await"
    /\ dbAccounts' = DbPut(dbAccounts, c.account)
    /\ adds' = (adds \ {c}) \cup {[c EXCEPT !.st = "stored"]}
    /\ UNCHANGED <<accounts, codes, timeLeft, mountPc,
                   savedAccounts, intervals, disposed, removes, nextId, now,
                   tickNow, lastCall, justAdded, removed,
                   failedAdds>>

\* db.addAccount(newAccount) rejects; lines 59-61 log the error
\* an optimistic addAccount: the account is put on the list although the
\* write of line 55 failed
DbAddRejectsAfterAppend(c) ==
    /\ c \in adds
    /\ c.st = "await"
    /\ adds' = adds \ {c}
    /\ accounts' = Append(accounts, c.account)
    /\ lastCall' = Returns
    /\ failedAdds' = failedAdds \cup {c.account.id}
    /\ UNCHANGED <<codes, timeLeft, mountPc,
                   savedAccounts, intervals, disposed, removes, dbAccounts,
                   nextId, now, tickNow, justAdded, removed>>

DbAddRejects(c) ==
    /\ c \in adds
    /\ c.st = "await"
    /\ adds' = adds \ {c}
    /\ lastCall' = Returns
    /\ failedAdds' = failedAdds \cup {c.account.id}
    /\ UNCHANGED <<accounts, codes, timeLeft, mountPc,
                   savedAccounts, intervals, disposed, removes, dbAccounts,
                   nextId, now, tickNow, justAdded, removed>>

\* [newAccount, ...accounts()]: the new account is put first
SpreadNewFirst(list, newAccount) == <<newAccount>> \o list

\* [newAccount]: the list is overwritten with the new account alone
SpreadNewOnly(list, newAccount) == <<newAccount>>

\* [...accounts(), newAccount] of line 56
Spread(list, newAccount) == Append(list, newAccount)

\* line 56 (lines 57-58 reset the form fields)
AddAccountResume(c) ==
    /\ c \in adds
    /\ c.st = "stored"
    /\ accounts' = Spread(accounts, c.account)
    /\ adds' = adds \ {c}
    /\ lastCall' = Returns
    /\ justAdded' = justAdded \cup {c.account.id}
    /\ intervals' = intervals + EffectRuns({"accounts"})
    /\ UNCHANGED <<codes, timeLeft, mountPc, savedAccounts,
                   disposed, removes, dbAccounts, nextId, now, tickNow,
                   removed,
                   failedAdds>>

\* the ids removeAccount is called with: that of an account on display
\* (line 155), or one that no account has
RemoveTargets == {NoSuchId} \cup Ids(accounts)

\* Array.prototype.splice(findIndex(...), 1): findIndex is -1 for an absent
\* id, and splice(-1, 1) drops the last element
SpliceOut(list, id) ==
    IF id \in Ids(list) THEN SelectSeq(list, LAMBDA a : a.id # id)
    ELSE IF list = <<>> THEN list
    ELSE SubSeq(list, 1, Len(list) - 1)

\* accounts().filter(account => account.id !== id) of line 67
FilterOut(list, id) == SelectSeq(list, LAMBDA a : a.id # id)

\* lines 64-66, up to the await
RemoveAccount(id) ==
    /\ ~disposed
    /\ id \in RemoveTargets
    /\ InFlight < MaxCalls
    /\ removes' = removes (+) SetToBag({[id |-> id, st |-> "await"]})
    /\ UNCHANGED <<accounts, codes, timeLeft, mountPc,
                   savedAccounts, intervals, disposed, adds, dbAccounts,
                   nextId, now, tickNow, lastCall, justAdded, removed, failedAdds>>

\* the backend deletes the record of db.removeAccount(id)
DbRemoveResolves(c) ==
    /\ BagIn(c, removes)
    /\ c.st = "await"
    /\ dbAccounts' = DbDelete(dbAccounts, c.id)
    /\ removes' = (removes (-) SetToBag({c}))
                    (+) SetToBag({[c EXCEPT !.st = "deleted"]})
    /\ UNCHANGED <<accounts, codes, timeLeft, mountPc,
                   savedAccounts, intervals, disposed, adds, nextId, now,
                   tickNow, lastCall, justAdded, removed,
                   failedAdds>>

\* db.removeAccount(id) rejects; lines 68-70 log the error
DbRemoveRejects(c) ==
    /\ BagIn(c, removes)
    /\ c.st = "await"
    /\ removes' = removes (-) SetToBag({c})
    /\ lastCall' = Returns
    /\ UNCHANGED <<accounts, codes, timeLeft, mountPc,
                   savedAccounts, intervals, disposed, adds, dbAccounts,
                   nextId, now, tickNow, justAdded, removed,
                   failedAdds>>

\* line 67
RemoveAccountResume(c) ==
    /\ BagIn(c, removes)
    /\ c.st = "deleted"
    /\ accounts' = FilterOut(accounts, c.id)
    /\ removes' = removes (-) SetToBag({c})
    /\ lastCall' = Returns
    /\ removed' = removed \cup {c.id}
    /\ justAdded' = justAdded \ {c.id}
    /\ intervals' = intervals + EffectRuns({"accounts"})
    /\ UNCHANGED <<codes, timeLeft, mountPc,
                   savedAccounts, disposed, adds, dbAccounts,
                   nextId, now, tickNow, failedAdds>>

----------------------------------------------------------------------------
(* Disposal of the component.  createEffect passes the value its function  *)
(* returns to the next run of the effect and never calls it, and no        *)
(* onCleanup is registered: the function of line 41 does not run, and the  *)
(* timer of line 25 stays.                                                 *)

Dispose ==
    /\ ~disposed
    /\ disposed' = TRUE
    /\ UNCHANGED <<accounts, codes, timeLeft, mountPc,
                   savedAccounts, intervals, adds, removes, dbAccounts,
                   nextId, now, tickNow, lastCall, justAdded, removed, failedAdds>>

----------------------------------------------------------------------------
(* The specification. *)

\* the seconds at which the component may be mounted
StartTimes == {28}

\* what an earlier session may have left in the backend
PersistedAtStart ==
    {<<>>,
     <<[id |-> 1, name |-> "a", secret |-> <<"J", "B">>]>>,
     <<[id |-> 1, name |-> "a", secret |-> <<"!">>]>>}

Init ==
    /\ accounts = <<>>
    /\ codes = EmptyCodes
    /\ timeLeft = Period
    /\ mountPc = "init"
    /\ savedAccounts = <<>>
    /\ intervals = 1
    /\ disposed = FALSE
    /\ adds = {}
    /\ removes = EmptyBag
    /\ dbAccounts \in PersistedAtStart
    /\ nextId = 2
    /\ now \in StartTimes
    /\ tickNow = NoTick
    /\ lastCall = "none"
    /\ justAdded = {}
    /\ removed = {}
    /\ failedAdds = {}

Next ==
    \/ \E reads \in ClockReads(now, Len(accounts)) : Tick(reads)
    \/ ClockAdvance
    \/ DbInitResolves
    \/ DbLoadRejects
    \/ DbGetAllResolves
    \/ MountResume
    \/ \E name \in NameInputs : \E secret \in SecretInputs :
          AddAccount(name, secret)
    \/ \E c \in adds : DbAddResolves(c)
    \/ \E c \in adds : DbAddRejects(c)
    \/ \E c \in adds : AddAccountResume(c)
    \/ \E id \in RemoveTargets : RemoveAccount(id)
    \/ \E c \in BagToSet(removes) : DbRemoveResolves(c)
    \/ \E c \in BagToSet(removes) : DbRemoveRejects(c)
    \/ \E c \in BagToSet(removes) : RemoveAccountResume(c)
    \/ Dispose

Spec == Init /\ [][Next]_vars

----------------------------------------------------------------------------
(* Vocabulary of the properties. *)

\* a step that is one tick
TickStep == \E reads \in ClockReads(now, Len(accounts)) : Tick(reads)

\* a string of six decimal digits
IsCode(s) == Len(s) = 6 /\ Range(s) \subseteq Range(DigitChars)

\* nothing is awaiting the backend
Quiescent ==
    /\ mountPc \in {"done", "failed"}
    /\ adds = {}
    /\ removes = EmptyBag

\* a step in which validation rejects the input of addAccount, or the
\* backend fails an addAccount or a removeAccount
FailingStep ==
    \/ \E name \in NameInputs : \E secret \in SecretInputs :
          Rejected(name, secret) /\ AddAccount(name, secret)
    \/ \E c \in adds : DbAddRejects(c)
    \/ \E c \in BagToSet(removes) : DbRemoveRejects(c)

----------------------------------------------------------------------------
(* C1 *)

\* C1: in every reachable state timeLeft is an integer in 1..30, and once a
\* tick has run it is 30 - (now mod 30) for the second `now` that tick read:
\* 30 at a multiple of 30, 1 when now mod 30 = 29, never 0.
C1_SecondsRemaining ==
    /\ timeLeft \in 1..Period
    /\ tickNow # NoTick =>
          (/\ timeLeft = Period - (tickNow % Period)
           /\ (tickNow % Period = 0 => timeLeft = Period)
           /\ (tickNow % Period = Period - 1 => timeLeft = 1))

\* a tick has read a second that is an exact multiple of the period
C1_Witness ==
    /\ tickNow # NoTick
    /\ tickNow % Period = 0
    /\ timeLeft = Period

----------------------------------------------------------------------------
(* C2 *)

\* C2: every tick gives every account of the list an entry; the entry of an
\* account whose secret the generator rejects is the error text, and every
\* other account of the list gets a six-digit code in the same snapshot,
\* wherever the failing account stands in the list.
C2_FailureIsPerAccount ==
    [][TickStep =>
          \A i \in DOMAIN accounts :
              /\ accounts[i].id \in DOMAIN codes'
              /\ (Decodable(accounts[i].secret) =>
                    IsCode(codes'[accounts[i].id]))
              /\ (~Decodable(accounts[i].secret) =>
                    codes'[accounts[i].id] = ErrorText)]_vars

\* a snapshot of the whole list in which an account that fails stands
\* before one that got a code
C2_Witness ==
    /\ DOMAIN codes = Ids(accounts)
    /\ \E i \in DOMAIN accounts : \E j \in DOMAIN accounts :
          /\ i < j
          /\ ~Decodable(accounts[i].secret)
          /\ codes[accounts[i].id] = ErrorText
          /\ Decodable(accounts[j].secret)
          /\ IsCode(codes[accounts[j].id])

----------------------------------------------------------------------------
(* C3 *)

\* C3: a tick fires only after the mount-time load has finished and set
\* the account list.
C3_LoadBeforeFirstTick == tickNow # NoTick => mountPc = "done"

----------------------------------------------------------------------------
(* C4 *)

\* C4: the snapshot of a tick has an entry for every account whose add
\* completed before the tick and none for an account whose remove completed
\* before it, and once nothing is pending the account list holds exactly
\* the accounts the backend holds.
C4_NoMutationLost ==
    [][/\ TickStep =>
             (/\ justAdded \subseteq DOMAIN codes'
              /\ removed \cap DOMAIN codes' = {})
       /\ Quiescent' => (Range(accounts') = Range(dbAccounts'))]_vars

----------------------------------------------------------------------------
(* C5 *)

\* C5: the first tick after an addAccount whose write succeeded has
\* completed produces a snapshot with an entry for the new account.
C5_AddedShowsInNextTick == [][TickStep => justAdded \subseteq DOMAIN codes']_vars

----------------------------------------------------------------------------
(* C6 *)

\* C6: no tick after a removeAccount(id) whose delete succeeded has
\* completed produces a snapshot with an entry for id.
C6_RemovedNeverShows == [][TickStep => removed \cap DOMAIN codes' = {}]_vars

----------------------------------------------------------------------------
(* C7 *)

\* C7: every account of the list and of the backend has a non-empty name
\* and a non-empty secret.
C7_NameAndSecretNonEmpty ==
    \A a \in Range(accounts) \cup Range(dbAccounts) :
        a.name # "" /\ a.secret # <<>>

----------------------------------------------------------------------------
(* C8 *)

\* C8: whenever validation rejects the input or the backend fails, the
\* promise the caller holds is rejected.
C8_ErrorsReachTheCaller == [][FailingStep => lastCall' = "rejected"]_vars

----------------------------------------------------------------------------
(* C9 *)

\* C9: the code value of an account is never an error string: every value
\* of the snapshot is a numeric code.
C9_NoErrorStringAsCode == \A id \in DOMAIN codes : IsCode(codes[id])

----------------------------------------------------------------------------
(* C10 *)

\* C10: a removeAccount(id) that finishes while id is not in the account
\* list raises no error and leaves the list, the snapshot and the snapshot
\* of the next tick as they are; after a removeAccount(id) has gone through
\* id is not in the list, so a second one, overlapping or not, changes
\* nothing more.
C10_RemoveIsIdempotent ==
    [][\A c \in BagToSet(removes) :
          LET finishes == RemoveAccountResume(c) \/ DbRemoveRejects(c)
              absent == c.id \notin Ids(accounts)
          IN  /\ finishes => lastCall' = "resolved"
              /\ (finishes /\ absent) =>
                    (/\ accounts' = accounts
                     /\ codes' = codes
                     /\ \A reads \in ClockReads(now, Len(accounts)) :
                           NewCodes(accounts', reads)
                               = NewCodes(accounts, reads))
              /\ RemoveAccountResume(c) => c.id \notin Ids(accounts')]_vars

\* removeAccount of an id that no account has has gone through, and a
\* second removeAccount of an id already removed is about to finish, while
\* the list is not empty
C10_Witness ==
    /\ NoSuchId \in removed
    /\ accounts # <<>>
    /\ \E c \in BagToSet(removes) :
          /\ c.st = "deleted"
          /\ c.id \in removed
          /\ c.id # NoSuchId
          /\ c.id \notin Ids(accounts)

----------------------------------------------------------------------------
(* C11 *)

\* C11: at most one repeating timer is live in every reachable state: no
\* load, add, remove or tick creates another one.
C11_OneTimer == intervals <= 1

\* the load, an add, a remove and a tick have all gone through, and one
\* timer is live
C11_Witness ==
    /\ intervals = 1
    /\ mountPc = "done"
    /\ tickNow # NoTick
    /\ removed # {}
    /\ nextId > 2
    /\ adds = {}

----------------------------------------------------------------------------
(* C12 *)

\* C12: once the component is disposed no tick fires: the snapshot and
\* timeLeft are never written again.
C12_NoTickAfterDispose == [][disposed => ~TickStep]_vars

----------------------------------------------------------------------------
(* C13 *)

AddFails == \E c \in adds : DbAddRejects(c)

RemoveFails == \E c \in BagToSet(removes) : DbRemoveRejects(c)

\* C13: a failed write of addAccount and a failed delete of removeAccount
\* leave the account list as it was, and an account whose write failed is
\* never on the list or in a snapshot.
C13_FailureLeavesListAlone ==
    [][ /\ (AddFails \/ RemoveFails) => accounts' = accounts
        /\ failedAdds' \cap (Ids(accounts') \cup DOMAIN codes') = {} ]_vars

\* the write of an add has failed and a tick has published the accounts that
\* are on the list since
C13_Witness ==
    /\ failedAdds # {}
    /\ accounts # <<>>
    /\ justAdded = {}
    /\ DOMAIN codes = Ids(accounts)

----------------------------------------------------------------------------
(* C14 *)

Window(t) == t \div Period

----------------------------------------------------------------------------
(* C15 *)

\* new is old without the accounts of the id, the others in old's order
OrderKept(old, new, id) ==
    \E f \in [DOMAIN new -> DOMAIN old] :
       /\ \A i, j \in DOMAIN new : i < j => f[i] < f[j]
       /\ \A i \in DOMAIN new : old[f[i]] = new[i]
       /\ {f[i] : i \in DOMAIN new} = {p \in DOMAIN old : old[p].id # id}

----------------------------------------------------------------------------
(* C17 *)

\* C17: the snapshot a tick publishes has an entry for the id of every
\* account on the list at that tick and for no other id.
C17_SnapshotReplaced == [][TickStep => DOMAIN codes' = Ids(accounts)]_vars

\* an account was removed, and the tick after it published a snapshot of the
\* accounts that were left
C17_Witness ==
    /\ tickNow # NoTick
    /\ removed \ {NoSuchId} # {}
    /\ removed \cap DOMAIN codes = {}
    /\ DOMAIN codes = Ids(accounts)
    /\ accounts # <<>>
    /\ removes = EmptyBag

----------------------------------------------------------------------------
(* C18 *)

\* C18: every code of the snapshot a tick publishes is the code of the
\* 30-second window the tick read at line 26, the window timeLeft counts
\* down.
C18_OneWindowPerSnapshot ==
    [][ TickStep
        => \A i \in DOMAIN accounts :
              codes'[accounts[i].id] = CodeOrError(accounts[i].secret, now)
      ]_vars

----------------------------------------------------------------------------
(* C20 *)

\* C20: a tick leaves the account list, the persisted accounts and the
\* calls in flight as they are; it writes timeLeft and codes only.
C20_TickOnlyReads ==
    [][ TickStep
        => UNCHANGED <<accounts, dbAccounts, savedAccounts, mountPc, adds,
                       removes, nextId, intervals, disposed, lastCall>>
      ]_vars

\* a tick has published the error text for an account whose secret the
\* generator refuses, and the account is still on the list and persisted
C20_Witness ==
    \E i \in DOMAIN accounts :
       /\ accounts[i].id \in DOMAIN codes
       /\ codes[accounts[i].id] = ErrorText
       /\ accounts[i] \in Range(dbAccounts)

----------------------------------------------------------------------------
(* C19 *)
(* The program from the moment the mount-time load has finished and put    *)
(* the persisted accounts on the list (line 17), before any call is made.  *)

InitLoaded ==
    /\ dbAccounts \in PersistedAtStart
    /\ accounts = dbAccounts
    /\ mountPc = "done"
    /\ codes = EmptyCodes
    /\ timeLeft = Period
    /\ savedAccounts = <<>>
    /\ intervals = 1
    /\ disposed = FALSE
    /\ adds = {}
    /\ removes = EmptyBag
    /\ nextId = 2
    /\ now \in StartTimes
    /\ tickNow = NoTick
    /\ lastCall = "none"
    /\ justAdded = {}
    /\ removed = {}
    /\ failedAdds = {}

NextLoaded ==
    \/ \E reads \in ClockReads(now, Len(accounts)) : Tick(reads)
    \/ ClockAdvance
    \/ \E name \in NameInputs : \E secret \in SecretInputs :
          AddAccount(name, secret)
    \/ \E c \in adds : DbAddResolves(c)
    \/ \E c \in adds : DbAddRejects(c)
    \/ \E c \in adds : AddAccountResume(c)
    \/ \E id \in RemoveTargets : RemoveAccount(id)
    \/ \E c \in BagToSet(removes) : DbRemoveResolves(c)
    \/ \E c \in BagToSet(removes) : DbRemoveRejects(c)
    \/ \E c \in BagToSet(removes) : RemoveAccountResume(c)
    \/ Dispose

SpecLoaded == InitLoaded /\ [][NextLoaded]_vars

\* no addAccount and no removeAccount is in flight
Settled == adds = {} /\ removes = EmptyBag

\* the ids given out by addAccount so far
Issued == 2 .. (nextId - 1)

\* the list has every account whose add went through and that was not
\* removed, and no account that was removed
ListIsComplete ==
    /\ \A id \in Issued :
          id \notin (failedAdds \cup removed) => id \in Ids(accounts)
    /\ Ids(accounts) \cap removed = {}

\* C19: for calls made after the load has finished: the continuation of an
\* add keeps every account that is on the list and adds its own, the
\* continuation of a remove takes its own id off and keeps every other
\* account, and when no call is in flight the list has every added account
\* that was not removed and no removed one.
C19_NoLostUpdate ==
    [][ /\ \A c \in adds :
              AddAccountResume(c)
              => (/\ Range(accounts) \subseteq Range(accounts')
                  /\ c.account \in Range(accounts'))
        /\ \A c \in BagToSet(removes) :
              RemoveAccountResume(c)
              => (/\ {a \in Range(accounts) : a.id # c.id}
                        \subseteq Range(accounts')
                  /\ c.id \notin Ids(accounts'))
        /\ Settled' => ListIsComplete'
      ]_vars

\* an add and a remove of the loaded account overlapped: the remove has
\* finished while the add, written by the backend, has yet to resume
C19_Witness ==
    /\ mountPc = "done"
    /\ 1 \in removed
    /\ 1 \notin Ids(accounts)
    /\ \E c \in adds : c.st = "stored"
    /\ Ids(dbAccounts) = {2}

====
